---------------------------- MODULE Spec2Model ----------------------------
(***************************************************************************)
(* Model of the background-graph-entities card                             *)
(* (src/src/background-graph-entities.ts).                                 *)
(*                                                                         *)
(* The specifications of this module share its variables:                  *)
(*   SpecDS  the history downsampler _downsampleHistory, applied to every  *)
(*           input of a bounded domain;                                    *)
(*   SpecFH  _fetchHistory from the history response on: coercion and      *)
(*           filtering of the entries, the settings with their defaults,   *)
(*           and the call of _downsampleHistory;                           *)
(*   Spec    the card component: setConfig, connect/disconnect, the        *)
(*           refresh timer, updated() and the refresh cycles with their    *)
(*           history requests in flight;                                   *)
(*   SpecFP  _downsampleHistory with the rounding of floating-point        *)
(*           arithmetic, at a reduced precision;                           *)
(*   SpecR   the rendering of one graph container: the render requests,    *)
(*           the retries through requestAnimationFrame and the retry       *)
(*           counter (SpecRFair: the queued callbacks eventually run).     *)
(*                                                                         *)
(* Numbers.  A JavaScript number is modelled as an exact rational          *)
(* [n |-> numerator, d |-> denominator], d > 0, in lowest terms.  The      *)
(* inputs are drawn so that hours * MS_IN_H and MS_IN_H / pointsPerHour    *)
(* are whole milliseconds; on that domain no Date truncation occurs.  With *)
(* the sample values 0 and 1 of SpecDS, SpecFH and Spec the double         *)
(* arithmetic of the code is exact up to the rounding of the final         *)
(* division; SpecFP rounds every operation.  A denominator of 0 marks the  *)
(* values that are not finite: NaN is 0/0 and Infinity is 1/0.             *)
(***************************************************************************)
EXTENDS Integers, Sequences, FiniteSets, TLC

(***************************************************************************)
(* Program constants (lines 19-38).                                        *)
(***************************************************************************)
DEFAULT_HOURS_TO_SHOW == 24
DEFAULT_POINTS_PER_HOUR == 1
MS_IN_S == 1000
S_IN_MIN == 60
MIN_IN_H == 60
MS_IN_H == MIN_IN_H * S_IN_MIN * MS_IN_S
MAX_RETRIES == 10       \* line 462

(***************************************************************************)
(* Bounds of the model.                                                    *)
(***************************************************************************)
MaxStates == 3      \* longest input sequence of _downsampleHistory
MaxSkew == 1        \* most ms the clock advances between the two clock reads
MaxEntries == 2     \* most entries in one history response
MaxRenders == 2     \* most replacements of the stored history of the rendered entity
Precision == 6      \* significand bits of the reduced binary floating point (a double has 53)

(***************************************************************************)
(* Exact rational arithmetic standing for JavaScript numbers.              *)
(***************************************************************************)
Abs(x) == IF x < 0 THEN -x ELSE x
Max(a, b) == IF a >= b THEN a ELSE b
Min(a, b) == IF a <= b THEN a ELSE b

RECURSIVE GCD(_, _)
GCD(a, b) == IF b = 0 THEN a ELSE GCD(b, a % b)

NaN == [n |-> 0, d |-> 0]
Infinity == [n |-> 1, d |-> 0]
IsNaN(v) == v.n = 0 /\ v.d = 0           \* isNaN (line 728)
IsFinite(v) == v.d # 0

\* the rational n/d in lowest terms with a positive denominator; n/0 is
\* Infinity, -Infinity or NaN by the sign of n
Rat(n, d) ==
  LET g == GCD(Abs(n), Abs(d))
      s == IF d < 0 THEN -1 ELSE 1
  IN IF g = 0 THEN NaN ELSE [n |-> s * (n \div g), d |-> s * (d \div g)]

Num(v) == [n |-> v, d |-> 1]
\* a + b; Infinity + Infinity is Infinity, Infinity - Infinity is NaN
RatAdd(a, b) ==
  IF a.d = 0 /\ b.d = 0 THEN (IF a = b THEN a ELSE NaN)
  ELSE Rat(a.n * b.d + b.n * a.d, a.d * b.d)
RatScale(a, k) == Rat(a.n * k, a.d)
RatDivInt(a, k) == Rat(a.n, a.d * k)
RatLeqZero(a) == a.n <= 0

\* ceil(a / b) for an integer a and b > 0 (Math.ceil of an exact quotient)
CeilDiv(a, b) == -((-a) \div b)

\* hours * MS_IN_H, a whole number of ms on the model's domain (line 634);
\* whole hours and the fraction separately, to stay within TLC's integers
HoursToMs(hours) ==
  (hours.n \div hours.d) * MS_IN_H + ((hours.n % hours.d) * MS_IN_H) \div hours.d


(***************************************************************************)
(* _downsampleHistory (lines 620-689), computed as the code computes it.   *)
(* A sample is [timestamp |-> ms, value |-> rational].  clock1 is the      *)
(* clock read of line 631 (the terminal marker), clock2 the one of line    *)
(* 633 (now).                                                              *)
(***************************************************************************)

\* line 625: the short-circuit test
PassThrough(states, pointsPerHour) == RatLeqZero(pointsPerHour) \/ Len(states) = 0

\* line 631: the states followed by a virtual point at the current time
StatesWithEndpoints(states, clock1) ==
  Append(states, [timestamp |-> clock1, value |-> states[Len(states)].value])

\* line 634
StartTimeMutant(now, hours) == now - 2 * HoursToMs(hours)
StartTime(now, hours) == now - HoursToMs(hours)

\* line 635: MS_IN_H / pointsPerHour, a whole number of ms on the model's domain
IntervalMutant(hours, pointsPerHour) == (MS_IN_H * pointsPerHour.n) \div pointsPerHour.d
Interval(hours, pointsPerHour) == (MS_IN_H * pointsPerHour.d) \div pointsPerHour.n

\* line 636
NumBucketsMutant(now, startTime, interval) == (now - startTime) \div interval
NumBuckets(now, startTime, interval) == CeilDiv(now - startTime, interval)

\* line 643: the end of the bucket interval is its timestamp
BucketTimestampMutant(startTime, i, interval) == startTime + i * interval
BucketTimestamp(startTime, i, interval) == startTime + (i + 1) * interval

\* line 657: the pair's interval begins no earlier than the bucket
PairStartMutant(currentState, bucketStartTime) == bucketStartTime
PairStart(currentState, bucketStartTime) == Max(currentState.timestamp, bucketStartTime)

\* line 661
DurationMutant(start, end) == 1
Duration(start, end) == end - start

\* line 662: the value that was in effect during the pair's interval
PairValueMutant(currentState, nextState) == nextState.value
PairValue(currentState, nextState) == currentState.value

\* lines 652-665: the scan over the consecutive pairs of statesWithEndpoints,
\* from pair k on, accumulating into acc
RECURSIVE ScanStates(_, _, _, _, _)
ScanStates(statesWithEndpoints, bucketStartTime, bucketEndTime, k, acc) ==
  IF k > Len(statesWithEndpoints) - 1 THEN acc
  ELSE LET currentState == statesWithEndpoints[k]
           nextState == statesWithEndpoints[k + 1]
           start == PairStart(currentState, bucketStartTime)
           end == Min(nextState.timestamp, bucketEndTime)
           duration == Duration(start, end)
       IN ScanStates(statesWithEndpoints, bucketStartTime, bucketEndTime, k + 1,
            IF start < end
              THEN [weightedSum |-> RatAdd(acc.weightedSum, RatScale(PairValue(currentState, nextState), duration)),
                    totalDurationInBucket |-> acc.totalDurationInBucket + duration]
              ELSE acc)

\* lines 648-665 for one bucket
BucketScanMutant(statesWithEndpoints, bucketStartTime, bucketEndTime) ==
  ScanStates(statesWithEndpoints, bucketStartTime, bucketEndTime, 2,
             [weightedSum |-> Num(0), totalDurationInBucket |-> 0])
BucketScan(statesWithEndpoints, bucketStartTime, bucketEndTime) ==
  ScanStates(statesWithEndpoints, bucketStartTime, bucketEndTime, 1,
             [weightedSum |-> Num(0), totalDurationInBucket |-> 0])

\* line 670: states.filter((s) => s.timestamp <= bucketEndTime).pop()?.value ?? lastValue
LastValueAtOrBefore(states, bucketEndTime, lastValue) ==
  LET kept == {j \in 1..Len(states) : states[j].timestamp <= bucketEndTime}
  IN IF kept = {} THEN lastValue
     ELSE states[CHOOSE j \in kept : \A m \in kept : m <= j].value

\* lines 667-674: the value of a bucket, given the scan and the carried value
ValueForBucketMutant(scan, lastValue) ==
  RatDivInt(scan.weightedSum, scan.totalDurationInBucket)
ValueForBucket(scan, lastValue) ==
  IF scan.totalDurationInBucket > 0
    THEN RatDivInt(scan.weightedSum, scan.totalDurationInBucket)
    ELSE lastValue

\* lines 642-681: the bucket loop from index i on
RECURSIVE BucketLoop(_, _, _, _, _, _, _, _)
BucketLoop(states, statesWithEndpoints, startTime, interval, numBuckets, i, lastValue, downsampled) ==
  IF ~(i < numBuckets) THEN downsampled
  ELSE LET bucketTimestamp == BucketTimestamp(startTime, i, interval)
           bucketStartTime == startTime + i * interval
           bucketEndTime == bucketStartTime + interval
           scan == BucketScan(statesWithEndpoints, bucketStartTime, bucketEndTime)
           valueForBucket == ValueForBucket(scan, lastValue)
           newLast == IF scan.totalDurationInBucket > 0
                        THEN LastValueAtOrBefore(states, bucketEndTime, lastValue)
                        ELSE lastValue
       IN BucketLoop(states, statesWithEndpoints, startTime, interval, numBuckets, i + 1, newLast,
                     Append(downsampled, [timestamp |-> bucketTimestamp, value |-> valueForBucket]))

\* lines 683-686: the point that anchors the graph at the start of the window
AnchorMutant(states, startTime) == [timestamp |-> states[1].timestamp, value |-> states[1].value]
Anchor(states, startTime) == [timestamp |-> startTime, value |-> states[1].value]

\* lines 620-689
DownsampleHistoryMutant(states, hours, pointsPerHour, clock1, clock2) ==
  IF Len(states) = 0 THEN states
  ELSE IF RatLeqZero(pointsPerHour) THEN StatesWithEndpoints(states, clock1)
  ELSE LET startTime == StartTime(clock2, hours)
           interval == Interval(hours, pointsPerHour)
       IN << Anchor(states, startTime) >> \o
          BucketLoop(states, StatesWithEndpoints(states, clock1), startTime, interval,
                     NumBuckets(clock2, startTime, interval), 0, states[1].value, << >>)
DownsampleHistory(states, hours, pointsPerHour, clock1, clock2) ==
  IF PassThrough(states, pointsPerHour) THEN states
  ELSE LET statesWithEndpoints == StatesWithEndpoints(states, clock1)
           now == clock2
           startTime == StartTime(now, hours)
           interval == Interval(hours, pointsPerHour)
           numBuckets == NumBuckets(now, startTime, interval)
           downsampled == BucketLoop(states, statesWithEndpoints, startTime, interval,
                                     numBuckets, 0, states[1].value, << >>)
       IN << Anchor(states, startTime) >> \o downsampled

\* the elements of the argument array after the call: line 631 reads it through
\* a spread copy and line 670 through the copy that filter builds, so the pop
\* of line 670 and the unshift of line 685 act on other arrays
StatesAfterCallMutant(states, pointsPerHour, clock1) ==
  IF PassThrough(states, pointsPerHour) THEN states ELSE StatesWithEndpoints(states, clock1)
StatesAfterCall(states, pointsPerHour, clock1) == states

\* lines 626 and 688: the array object the call returns
ReturnedArray(states, pointsPerHour) ==
  IF PassThrough(states, pointsPerHour) THEN "states" ELSE "downsampled"

(***************************************************************************)
(* _downsampleHistory in binary floating point.  The sum, the product and  *)
(* the quotient of lines 662 and 668 are rounded to the nearest number     *)
(* with p significand bits, ties to even, as IEEE 754 arithmetic rounds    *)
(* them to 53 bits; the exponent range is not bounded.  The timestamps and *)
(* durations are whole milliseconds and exact.                             *)
(***************************************************************************)
RoundHalfEven(q, r, divisor) ==
  IF r > divisor - r \/ (r = divisor - r /\ q % 2 = 1) THEN q + 1 ELSE q

\* the least e with q0 / 2^e below 2^p
RECURSIVE ShiftDown(_, _, _)
ShiftDown(q0, p, e) == IF q0 \div 2^e < 2^p THEN e ELSE ShiftDown(q0, p, e + 1)

\* the least f with (q0 + r0/d) * 2^f at least 2^(p-1)
RECURSIVE ShiftUp(_, _, _, _, _)
ShiftUp(q0, r0, d, p, f) ==
  IF q0 * 2^f + (r0 * 2^f) \div d >= 2^(p - 1) THEN f ELSE ShiftUp(q0, r0, d, p, f + 1)

\* x rounded to the nearest number with p significand bits
RoundTo(x, p) ==
  IF x.d = 0 \/ x.n = 0 THEN x
  ELSE LET sign == IF x.n < 0 THEN -1 ELSE 1
           a == Abs(x.n)
           q0 == a \div x.d
           r0 == a % x.d
       IN IF q0 >= 2^p
            THEN LET e == ShiftDown(q0, p, 1)
                     divisor == x.d * 2^e
                 IN Rat(sign * RoundHalfEven(a \div divisor, a % divisor, divisor) * 2^e, 1)
          ELSE IF q0 >= 2^(p - 1)
            THEN Rat(sign * RoundHalfEven(q0, r0, x.d), 1)
          ELSE LET f == ShiftUp(q0, r0, x.d, p, 1)
                   q == q0 * 2^f + (r0 * 2^f) \div x.d
                   r == (r0 * 2^f) % x.d
               IN Rat(sign * RoundHalfEven(q, r, x.d), 2^f)

\* the rounding of every arithmetic operation on numbers (lines 662 and 668)
FlMutant(x) == RoundTo(x, 2)
Fl(x) == RoundTo(x, Precision)

\* line 662: weightedSum += currentState.value * duration
RECURSIVE ScanStatesFl(_, _, _, _, _)
ScanStatesFl(statesWithEndpoints, bucketStartTime, bucketEndTime, k, acc) ==
  IF k > Len(statesWithEndpoints) - 1 THEN acc
  ELSE LET currentState == statesWithEndpoints[k]
           nextState == statesWithEndpoints[k + 1]
           start == PairStart(currentState, bucketStartTime)
           end == Min(nextState.timestamp, bucketEndTime)
           duration == Duration(start, end)
       IN ScanStatesFl(statesWithEndpoints, bucketStartTime, bucketEndTime, k + 1,
            IF start < end
              THEN [weightedSum |-> Fl(RatAdd(acc.weightedSum,
                                              Fl(RatScale(PairValue(currentState, nextState), duration)))),
                    totalDurationInBucket |-> acc.totalDurationInBucket + duration]
              ELSE acc)

BucketScanFl(statesWithEndpoints, bucketStartTime, bucketEndTime) ==
  ScanStatesFl(statesWithEndpoints, bucketStartTime, bucketEndTime, 1,
               [weightedSum |-> Num(0), totalDurationInBucket |-> 0])

\* lines 667-674, with the rounded quotient of line 668
ValueForBucketFl(scan, lastValue) ==
  IF scan.totalDurationInBucket > 0
    THEN Fl(RatDivInt(scan.weightedSum, scan.totalDurationInBucket))
    ELSE lastValue

RECURSIVE BucketLoopFl(_, _, _, _, _, _, _, _)
BucketLoopFl(states, statesWithEndpoints, startTime, interval, numBuckets, i, lastValue, downsampled) ==
  IF ~(i < numBuckets) THEN downsampled
  ELSE LET bucketTimestamp == BucketTimestamp(startTime, i, interval)
           bucketStartTime == startTime + i * interval
           bucketEndTime == bucketStartTime + interval
           scan == BucketScanFl(statesWithEndpoints, bucketStartTime, bucketEndTime)
           valueForBucket == ValueForBucketFl(scan, lastValue)
           newLast == IF scan.totalDurationInBucket > 0
                        THEN LastValueAtOrBefore(states, bucketEndTime, lastValue)
                        ELSE lastValue
       IN BucketLoopFl(states, statesWithEndpoints, startTime, interval, numBuckets, i + 1, newLast,
                       Append(downsampled, [timestamp |-> bucketTimestamp, value |-> valueForBucket]))

DownsampleHistoryFl(states, hours, pointsPerHour, clock1, clock2) ==
  IF PassThrough(states, pointsPerHour) THEN states
  ELSE LET statesWithEndpoints == StatesWithEndpoints(states, clock1)
           now == clock2
           startTime == StartTime(now, hours)
           interval == Interval(hours, pointsPerHour)
           numBuckets == NumBuckets(now, startTime, interval)
           downsampled == BucketLoopFl(states, statesWithEndpoints, startTime, interval,
                                       numBuckets, 0, states[1].value, << >>)
       IN << Anchor(states, startTime) >> \o downsampled

(***************************************************************************)
(* _fetchHistory from the history response on (lines 697-730).  An entry   *)
(* of the response is [s |-> state string, lu |-> seconds].                *)
(***************************************************************************)
\* Number(s.s) on the state strings of the model (line 726)
NumberOf(s) ==
  CASE s = "0.5" -> Rat(1, 2)
    [] s = "Infinity" -> Infinity
    [] s = "" -> Num(0)
    [] OTHER -> NaN

\* lines 723-726
CoerceValue(s) == IF s = "on" THEN Num(1) ELSE IF s = "off" THEN Num(0) ELSE NumberOf(s)

\* lines 722-727: the map over the entries
MapStates(rawStates) ==
  [j \in 1..Len(rawStates) |->
     [timestamp |-> rawStates[j].lu * MS_IN_S, value |-> CoerceValue(rawStates[j].s)]]

\* line 728: .filter((s) => !isNaN(s.value))
KeepState(s) == ~IsNaN(s.value)
FinalStates(rawStates) == SelectSeq(MapStates(rawStates), KeepState)

\* a setting of the configuration: absent, or configured with a value
Unset == [defined |-> FALSE, value |-> Num(0)]
Setting(v) == [defined |-> TRUE, value |-> v]

\* lines 697-698: setting || default
OrDefault(setting, default) ==
  IF setting.defined /\ setting.value.n # 0 THEN setting.value ELSE Num(default)

(***************************************************************************)
(* The input domain of the downsampler's specification.                    *)
(***************************************************************************)
CallTime == 3 * MS_IN_H                 \* the clock when now is read
Quarter == MS_IN_H \div 4
\* sample timestamps: a quarter of an hour after the call, and one to four
\* quarters before it; sample values: those of a binary sensor (lines 724-725)
TimePoints == {CallTime + Quarter} \cup {CallTime - k * Quarter : k \in 1..4}
Values == {Num(0), Num(1)}
Skews == {0, MaxSkew}
Samples == [timestamp : TimePoints, value : Values]
\* the windows: none, half an hour to an hour and a half, and one hour and 1 ms,
\* whose last bucket begins 1 ms before now
HoursSet == {Num(-1), Num(0), Rat(1, 2), Num(1), Rat(MS_IN_H + 1, MS_IN_H), Rat(3, 2)}
PointsPerHourSet == {Num(-1), Num(0), Rat(1, 2), Num(1), Num(2)}
\* the domain of the floating-point specification: sample values that need all
\* the significand bits, so that their products with the durations are rounded
FloatValues == {Num(37), Num(53)}
FloatTimePoints == {CallTime + Quarter, CallTime - Quarter, CallTime - 3 * Quarter, CallTime - 4 * Quarter}
FloatSamples == [timestamp : FloatTimePoints, value : FloatValues]
FloatHoursSet == {Num(1), Rat(3, 2)}
FloatPointsPerHourSet == {Num(1), Num(2)}

\* the history responses: state strings of a binary sensor, a numeric sensor,
\* an unavailable entity and an overflowing reading; last-updated times one
\* hour and half an hour before the call
StateStrings == {"on", "off", "0.5", "unavailable", "Infinity"}
LastUpdated == {(CallTime - 4 * Quarter) \div MS_IN_S, (CallTime - 2 * Quarter) \div MS_IN_S}
RawEntries == [s : StateStrings, lu : LastUpdated]
HoursToShowSet == {Unset, Setting(Num(0)), Setting(Num(1)), Setting(Rat(3, 2))}
PointsPerHourSettings == {Unset, Setting(Num(-1)), Setting(Num(0)), Setting(Num(1)), Setting(Num(2))}



(***************************************************************************)
(* The arguments, clock reads and return value of one call of              *)
(* _downsampleHistory.                                                     *)
(***************************************************************************)
VARIABLES
  states,          \* the states argument
  hours,           \* the hours argument
  pointsPerHour,   \* the pointsPerHour argument
  clock1,          \* new Date() of line 631
  clock2,          \* new Date() of line 633
  called,          \* has _downsampleHistory been applied
  result           \* its return value

dsVars == <<states, hours, pointsPerHour, clock1, clock2, called, result>>

(***************************************************************************)
(* One call of _fetchHistory from the arrival of the history response on   *)
(* (lines 716-730), and the array object a call of _downsampleHistory      *)
(* returns.                                                                *)
(***************************************************************************)
VARIABLES
  rawStates,        \* history[entityId] of the response: entries [s, lu]
  hours_to_show,    \* this._config.hours_to_show
  points_per_hour,  \* this._config.points_per_hour
  fetchReturned,    \* has _fetchHistory returned
  returned          \* which array _downsampleHistory returned: "states" (line 626),
                    \* "downsampled" (line 688), "none" before the call

fetchVars == <<rawStates, hours_to_show, points_per_hour, fetchReturned, returned>>



(***************************************************************************)
(* The card component (lines 66-149, 599-618, 691-735).                    *)
(*                                                                         *)
(* A configuration is [kind, entitiesKind, entities, update_interval]:     *)
(* kind "undefined" is a missing config; entitiesKind tells whether        *)
(* config.entities is missing, not an array, or an array; update_interval  *)
(* 0 stands for an absent (or zero) setting.  An entry of config.entities  *)
(* is a string or an object {entity, graph_entity}; graph_entity "" is an  *)
(* absent one.                                                             *)
(*                                                                         *)
(* A series is named by the request that produced it: [cycle, id] is the   *)
(* series the history source returned for the history id in refresh cycle  *)
(* number cycle (two requests of one cycle for one id ask the same         *)
(* question and, when both resolve, return the same series).               *)
(***************************************************************************)
MaxRequests == 4     \* callWS requests issued in one behaviour

Ids == {"a", "b", "x"}
Str(id) == [kind |-> "string", entity |-> id, graph_entity |-> ""]
Obj(id, graph) == [kind |-> "object", entity |-> id, graph_entity |-> graph]

UndefinedConfig == [kind |-> "undefined", entitiesKind |-> "missing", entities |-> << >>, update_interval |-> 0]
Config(entities, update_interval) ==
  [kind |-> "object", entitiesKind |-> "array", entities |-> entities,
   update_interval |-> update_interval]
ValidConfigs ==
  { Config(<< Str("a"), Str("b") >>, 30),
    Config(<< Str("b") >>, 0),
    Config(<< Obj("a", "x"), Str("x") >>, 60) }
InvalidConfigs ==
  { UndefinedConfig,
    [kind |-> "object", entitiesKind |-> "missing", entities |-> << >>, update_interval |-> 30],
    [kind |-> "object", entitiesKind |-> "notArray", entities |-> << >>, update_interval |-> 30],
    [kind |-> "object", entitiesKind |-> "array", entities |-> << >>, update_interval |-> 30] }
ConfigInputs == ValidConfigs \cup InvalidConfigs

NoEntitiesError == "You need to define at least one entity"
UnhandledRejection == "unhandled rejection of _fetchAndStoreAllHistory"
NothingThrown == ""

Absent == [cycle |-> 0, id |-> ""]       \* no entry under an id
Null == [cycle |-> -1, id |-> ""]      \* the null that _fetchHistory returns on failure
EmptyMap == [id \in Ids |-> Absent]      \* new Map()
MapSize(map) == Cardinality({id \in Ids : map[id] # Absent})

VARIABLES
  _config,          \* this._config, UndefinedConfig before the first setConfig
  _entities,        \* this._entities
  _history,         \* this._history: id -> series, Absent where the map has no entry
  _historyFetched,  \* this._historyFetched
  _timerId,         \* this._timerId, 0 for undefined
  timers,           \* the live interval timers of the window: {[id, period]}
  isConnected,      \* the element is in the DOM
  updatesEnabled,   \* the element has been connected once, so Lit performs updates
  hass,             \* this.hass has been set by the host
  changed,          \* changedProperties of the pending Lit update; "other" stands for
                    \* the properties updated() does not test (hass, _config, _entities)
  hostTask,         \* the pending changes were made by host calls of the current task
  rafPending,       \* a _renderAllGraphs callback waits for the next animation frame
  cycles,           \* refresh cycles in flight; stale: setConfig ran since the cycle started
  nextCycle,        \* number of the next refresh cycle
  requestCount,     \* callWS requests issued so far
  thrown            \* the message of the error the last handler threw, "" if none

cardState == <<_config, _entities, _history, _historyFetched, _timerId, timers>>
vars == <<_config, _entities, _history, _historyFetched, _timerId, timers, isConnected,
          updatesEnabled, hass, changed, hostTask, rafPending, cycles, nextCycle,
          requestCount, thrown>>

(***************************************************************************)
(* The rendering of one graph container (lines 145-148, 163-179, 457-478). *)
(* A series is named by its version: 0 is no series, k the series stored   *)
(* by the k-th replacement of this._history.  A callback waiting for the   *)
(* next animation frame is [kind |-> "all"], a _renderAllGraphs call, or   *)
(* [kind |-> "d3", history |-> k], a _renderD3Graph retry with the history *)
(* it captured.                                                            *)
(***************************************************************************)
VARIABLES
  containerReady,   \* the container is connected and has non-zero width and height
  _renderRetryMap,  \* this._renderRetryMap.get(container), 0 where the map has no entry
  frameCallbacks,   \* the callbacks requestAnimationFrame has queued, oldest first
  series,           \* the version of the series this._history holds for the container
  issued,           \* the history of the last _renderD3Graph call _renderAllGraphs made
  drawn             \* the version of the series drawn in the container, 0 for none

renderVars == <<containerReady, _renderRetryMap, frameCallbacks, series, issued, drawn>>

InitRender ==
  /\ containerReady = FALSE
  /\ _renderRetryMap = 0
  /\ frameCallbacks = << >>
  /\ series = 0
  /\ issued = 0
  /\ drawn = 0

InitFetch ==
  /\ rawStates = << >>
  /\ hours_to_show = Unset
  /\ points_per_hour = Unset
  /\ fetchReturned = FALSE
  /\ returned = "none"

InitDS ==
  /\ states = << >>
  /\ hours = Num(0)
  /\ pointsPerHour = Num(0)
  /\ clock1 = CallTime
  /\ clock2 = CallTime
  /\ called = FALSE
  /\ result = << >>

InitCard ==
  /\ _config = UndefinedConfig
  /\ _entities = << >>
  /\ _history = EmptyMap
  /\ _historyFetched = FALSE
  /\ _timerId = 0
  /\ timers = {}
  /\ isConnected = FALSE
  /\ updatesEnabled = FALSE
  /\ hass = FALSE
  /\ changed = {}
  /\ hostTask = FALSE
  /\ rafPending = FALSE
  /\ cycles = {}
  /\ nextCycle = 1
  /\ requestCount = 0
  /\ thrown = NothingThrown

\* line 78: the test that rejects a configuration
RejectsMutant(config) ==
  \/ config.kind = "undefined"
  \/ config.entitiesKind = "missing"
  \/ config.entitiesKind = "notArray"
Rejects(config) ==
  \/ config.kind = "undefined"
  \/ config.entitiesKind = "missing"
  \/ config.entitiesKind = "notArray"
  \/ Len(config.entities) = 0

\* lines 83-85: strings become {entity}
NormalizeEntity(entityConf) ==
  IF entityConf.kind = "string"
    THEN [entity |-> entityConf.entity, graph_entity |-> ""]
    ELSE [entity |-> entityConf.entity, graph_entity |-> entityConf.graph_entity]
MapEntities(entities) == [j \in 1..Len(entities) |-> NormalizeEntity(entities[j])]

\* line 107: clearInterval(this._timerId) when a handle is held
ClearedTimersMutant == timers
ClearedTimers == IF _timerId # 0 THEN {t \in timers : t.id # _timerId} ELSE timers

\* window.setInterval hands out a handle no live timer has
FreshTimerId(live) == CHOOSE n \in 1..(Cardinality(live) + 1) : \A t \in live : t.id # n

\* lines 106-111: _setupUpdateInterval under the configuration config
SetupUpdateInterval(config) ==
  IF config.kind = "undefined" \/ config.update_interval = 0
    THEN /\ timers' = ClearedTimers
         /\ UNCHANGED _timerId
    ELSE LET id == FreshTimerId(ClearedTimers)
         IN /\ timers' = ClearedTimers \cup {[id |-> id, period |-> config.update_interval * MS_IN_S]}
            /\ _timerId' = id

\* the requests of cycle c that have not settled
Pending(c) == {idx \in 1..Len(c.ids) : c.settled[idx] = "pending"}

\* Microtasks run before the next task of the event loop: the continuation of
\* _fetchAndStoreAllHistory after its await (lines 611-617) once all requests
\* of a cycle have settled, then the pending Lit update.
CompletionPending == \E c \in cycles : Pending(c) = {}
UpdatePending == updatesEnabled /\ changed # {}
TaskMayStart == ~CompletionPending /\ ~UpdatePending
HostMayCall == ~CompletionPending /\ (~UpdatePending \/ hostTask)

\* lines 77-91
SetConfig(config) ==
  /\ HostMayCall
  /\ IF Rejects(config)
       THEN /\ thrown' = NoEntitiesError
            /\ UNCHANGED <<_config, _entities, _history, _historyFetched, _timerId, timers,
                           changed, hostTask, cycles>>
       ELSE /\ thrown' = NothingThrown
            /\ _config' = config
            /\ _entities' = MapEntities(config.entities)
            /\ _historyFetched' = FALSE
            /\ _history' = EmptyMap
            /\ SetupUpdateInterval(config)
            /\ changed' = changed \cup {"other", "_history"}
            /\ hostTask' = TRUE
            /\ cycles' = {[c EXCEPT !.stale = TRUE] : c \in cycles}
  /\ UNCHANGED <<isConnected, updatesEnabled, hass, rafPending, nextCycle, requestCount>>
  /\ UNCHANGED dsVars
  /\ UNCHANGED fetchVars
  /\ UNCHANGED renderVars

\* lines 93-96; the first connection also starts Lit's first update, whose
\* changedProperties hold the fields initialised at lines 68-71
ConnectedCallback ==
  /\ HostMayCall
  /\ ~isConnected
  /\ isConnected' = TRUE
  /\ updatesEnabled' = TRUE
  /\ changed' = IF updatesEnabled THEN changed ELSE changed \cup {"other", "_history", "editMode"}
  /\ hostTask' = TRUE
  /\ SetupUpdateInterval(_config)
  /\ thrown' = NothingThrown
  /\ UNCHANGED <<_config, _entities, _history, _historyFetched, hass, rafPending,
                 cycles, nextCycle, requestCount>>
  /\ UNCHANGED dsVars
  /\ UNCHANGED fetchVars
  /\ UNCHANGED renderVars

\* lines 98-104
DisconnectedCallback ==
  /\ HostMayCall
  /\ isConnected
  /\ isConnected' = FALSE
  /\ IF _timerId # 0
       THEN /\ timers' = {t \in timers : t.id # _timerId}
            /\ _timerId' = 0
       ELSE UNCHANGED <<timers, _timerId>>
  /\ thrown' = NothingThrown
  /\ UNCHANGED <<_config, _entities, _history, _historyFetched, updatesEnabled, hass, changed,
                 hostTask, rafPending, cycles, nextCycle, requestCount>>
  /\ UNCHANGED dsVars
  /\ UNCHANGED fetchVars
  /\ containerReady' = FALSE
  /\ UNCHANGED <<_renderRetryMap, frameCallbacks, series, issued, drawn>>

\* line 67: the host sets the hass property
SetHass ==
  /\ HostMayCall
  /\ ~hass
  /\ hass' = TRUE
  /\ changed' = changed \cup {"other"}
  /\ hostTask' = TRUE
  /\ thrown' = NothingThrown
  /\ UNCHANGED <<_config, _entities, _history, _historyFetched, _timerId, timers, isConnected,
                 updatesEnabled, rafPending, cycles, nextCycle, requestCount>>
  /\ UNCHANGED dsVars
  /\ UNCHANGED fetchVars
  /\ UNCHANGED renderVars

\* line 606: the id whose history is requested for an entity
GraphEntityId(entityConf) ==
  IF entityConf.graph_entity # "" THEN entityConf.graph_entity ELSE entityConf.entity

\* lines 171-175: the id under which _renderAllGraphs looks up the history of
\* the container of the row entityId: that of the first entity of that name
FindEntity(entities, entityId) ==
  entities[CHOOSE j \in 1..Len(entities) :
             /\ entities[j].entity = entityId
             /\ \A m \in 1..(j - 1) : entities[m].entity # entityId]
LookupId(entities, entityId) ==
  LET entityConfig == FindEntity(entities, entityId)
  IN IF entityConfig.graph_entity # "" THEN entityConfig.graph_entity ELSE entityId

\* lines 604-609 up to the await: one request per entity, none settled yet
NewCycle(number) ==
  [number |-> number,
   stale |-> FALSE,
   ids |-> [j \in 1..Len(_entities) |-> GraphEntityId(_entities[j])],
   settled |-> [j \in 1..Len(_entities) |-> "pending"],
   newHistory |-> EmptyMap]

\* lines 612-617: the entries of newHistory that are not null
FilterNull(previous, newHistory) ==
  [id \in Ids |-> IF newHistory[id] = Null THEN Absent ELSE newHistory[id]]

\* lines 599-610: _fetchAndStoreAllHistory up to its await.  Without hass every
\* _fetchHistory returns null at line 695 and the cycle completes in the same task.
FetchAndStoreAllHistory(changedBefore) ==
  IF Len(_entities) = 0
    THEN /\ _history' = IF MapSize(_history) > 0 THEN EmptyMap ELSE _history
         /\ changed' = IF MapSize(_history) > 0 THEN changedBefore \cup {"_history"} ELSE changedBefore
         /\ UNCHANGED <<cycles, nextCycle, requestCount>>
  ELSE IF ~hass
    THEN /\ _history' = EmptyMap
         /\ changed' = changedBefore \cup {"_history"}
         /\ UNCHANGED <<cycles, nextCycle, requestCount>>
  ELSE /\ requestCount + Len(_entities) <= MaxRequests
       /\ cycles' = cycles \cup {NewCycle(nextCycle)}
       /\ nextCycle' = nextCycle + 1
       /\ requestCount' = requestCount + Len(_entities)
       /\ changed' = changedBefore
       /\ UNCHANGED _history

\* line 139: the flag after updated() has started the fetch
FetchedFlagMutant == _historyFetched
FetchedFlag == TRUE

\* Lit's update: render (lines 737-753), then updated (lines 138-149)
Update ==
  /\ UpdatePending
  /\ ~CompletionPending
  /\ IF _config.kind # "undefined" /\ hass /\ ~_historyFetched
       THEN /\ _historyFetched' = FetchedFlag
            /\ FetchAndStoreAllHistory({})
       ELSE /\ changed' = {}
            /\ UNCHANGED <<_historyFetched, _history, cycles, nextCycle, requestCount>>
  /\ rafPending' = (rafPending \/ "_history" \in changed \/ "editMode" \in changed)
  /\ hostTask' = FALSE
  /\ thrown' = NothingThrown
  /\ UNCHANGED <<_config, _entities, _timerId, timers, isConnected, updatesEnabled, hass>>
  /\ UNCHANGED dsVars
  /\ UNCHANGED fetchVars
  /\ UNCHANGED renderVars

\* line 110: a live interval timer fires
TimerTick ==
  /\ TaskMayStart
  /\ \E t \in timers : FetchAndStoreAllHistory(changed)
  /\ hostTask' = FALSE
  /\ thrown' = NothingThrown
  /\ UNCHANGED <<_config, _entities, _historyFetched, _timerId, timers, isConnected,
                 updatesEnabled, hass, rafPending>>
  /\ UNCHANGED dsVars
  /\ UNCHANGED fetchVars
  /\ UNCHANGED renderVars

\* lines 703-734: what _fetchHistory makes of the settled callWS promise: the
\* series of the response, or null from the catch block
FetchHistory(c, idx, resolved) ==
  IF resolved
    THEN [outcome |-> "ok", value |-> [cycle |-> c.number, id |-> c.ids[idx]]]
    ELSE [outcome |-> "failed", value |-> Null]

\* lines 607-608: the callWS promise of entity idx of cycle c settles, resolved or
\* rejected, and the entity's continuation stores what _fetchHistory returns.  A
\* rejection of _fetchHistory would reject Promise.all and with it the cycle.
Settle(c, idx, resolved) ==
  LET history == FetchHistory(c, idx, resolved)
  IN /\ TaskMayStart
     /\ idx \in Pending(c)
     /\ IF history.outcome = "rejected"
          THEN /\ cycles' = cycles \ {c}
               /\ thrown' = UnhandledRejection
          ELSE /\ cycles' = (cycles \ {c}) \cup
                    {[c EXCEPT !.settled[idx] = history.outcome,
                               !.newHistory[c.ids[idx]] = history.value]}
               /\ thrown' = NothingThrown
     /\ hostTask' = FALSE
     /\ UNCHANGED <<_config, _entities, _history, _historyFetched, _timerId, timers,
                    isConnected, updatesEnabled, hass, changed, rafPending, nextCycle,
                    requestCount>>
     /\ UNCHANGED dsVars
     /\ UNCHANGED fetchVars
     /\ UNCHANGED renderVars

HistoryResponse == \E c \in cycles : \E idx \in Pending(c) : Settle(c, idx, TRUE)
HistoryFailure == \E c \in cycles : \E idx \in Pending(c) : Settle(c, idx, FALSE)

\* lines 610-617: all requests of a cycle have settled; its result replaces _history
CompleteCycle ==
  \E c \in cycles :
    /\ Pending(c) = {}
    /\ cycles' = cycles \ {c}
    /\ _history' = FilterNull(_history, c.newHistory)
    /\ changed' = changed \cup {"_history"}
    /\ hostTask' = FALSE
    /\ thrown' = NothingThrown
    /\ UNCHANGED <<_config, _entities, _historyFetched, _timerId, timers, isConnected,
                   updatesEnabled, hass, rafPending, nextCycle,
                   requestCount>>
    /\ UNCHANGED dsVars
    /\ UNCHANGED fetchVars
    /\ UNCHANGED renderVars

\* lines 147, 163-179: the animation frame runs the queued _renderAllGraphs
\* callbacks, which draw into the DOM and leave the fields of the card alone
AnimationFrame ==
  /\ TaskMayStart
  /\ rafPending
  /\ rafPending' = FALSE
  /\ hostTask' = FALSE
  /\ thrown' = NothingThrown
  /\ UNCHANGED <<_config, _entities, _history, _historyFetched, _timerId, timers, isConnected,
                 updatesEnabled, hass, changed, cycles, nextCycle,
                 requestCount>>
  /\ UNCHANGED dsVars
  /\ UNCHANGED fetchVars
  /\ UNCHANGED renderVars

Next ==
  \/ \E config \in ConfigInputs : SetConfig(config)
  \/ ConnectedCallback
  \/ DisconnectedCallback
  \/ SetHass
  \/ Update
  \/ TimerTick
  \/ HistoryResponse
  \/ HistoryFailure
  \/ CompleteCycle
  \/ AnimationFrame

Init == InitCard /\ InitDS /\ InitFetch /\ InitRender

allVars == <<vars, dsVars, fetchVars, renderVars>>

Spec == Init /\ [][Next]_allVars

(***************************************************************************)
(* The rendering of the graph container of a configured, connected card.   *)
(***************************************************************************)
\* the card after setConfig({entities: ['b']}), connection, hass and a first
\* refresh cycle whose request failed
ConfiguredCard ==
  /\ _config = Config(<< Str("b") >>, 0)
  /\ _entities = MapEntities(<< Str("b") >>)
  /\ _history = EmptyMap
  /\ _historyFetched = TRUE
  /\ _timerId = 0
  /\ timers = {}
  /\ isConnected = TRUE
  /\ updatesEnabled = TRUE
  /\ hass = TRUE
  /\ changed = {}
  /\ hostTask = FALSE
  /\ rafPending = FALSE
  /\ cycles = {}
  /\ nextCycle = 2
  /\ requestCount = 1
  /\ thrown = NothingThrown

InitR == ConfiguredCard /\ InitDS /\ InitFetch /\ InitRender

AllCallback == [kind |-> "all", history |-> 0]
D3Callback(history) == [kind |-> "d3", history |-> history]

\* line 465: a container that is not ready is tried again only below the limit
MayRetryMutant(retryCount) == retryCount <= MAX_RETRIES
MayRetry(retryCount) == retryCount < MAX_RETRIES

\* lines 457-478 and the drawing that follows: one call of _renderD3Graph for the
\* container with the given history, in the frame state st = [retries, queued, issued, drawn]
RenderD3Graph(st, history) ==
  LET retryCount == st.retries
  IN IF ~containerReady
       THEN IF MayRetry(retryCount)
              THEN [st EXCEPT !.retries = retryCount + 1,
                              !.queued = Append(st.queued, D3Callback(history))]
              ELSE st
       ELSE [st EXCEPT !.retries = 0, !.drawn = history]

\* lines 163-179: _renderAllGraphs looks up the stored series of the container's entity
RenderAllGraphs(st) ==
  IF ~isConnected THEN st
  ELSE IF _config.kind = "undefined" THEN st
  ELSE RenderD3Graph([st EXCEPT !.issued = series], series)

\* the callbacks of one animation frame, from the k-th on, in the order queued
RECURSIVE RunCallbacks(_, _, _)
RunCallbacks(callbacks, k, st) ==
  IF k > Len(callbacks) THEN st
  ELSE RunCallbacks(callbacks, k + 1,
                    IF callbacks[k].kind = "all"
                      THEN RenderAllGraphs(st)
                      ELSE RenderD3Graph(st, callbacks[k].history))

\* an animation frame runs the queued callbacks; those they queue wait for the next
RenderFrame ==
  /\ frameCallbacks # << >>
  /\ LET st == RunCallbacks(frameCallbacks, 1,
                            [retries |-> _renderRetryMap, queued |-> << >>,
                             issued |-> issued, drawn |-> drawn])
     IN /\ _renderRetryMap' = st.retries
        /\ frameCallbacks' = st.queued
        /\ issued' = st.issued
        /\ drawn' = st.drawn
  /\ UNCHANGED <<containerReady, series>>
  /\ UNCHANGED vars
  /\ UNCHANGED dsVars
  /\ UNCHANGED fetchVars

\* lines 611 and 145-148: this._history is replaced and the update that follows
\* queues _renderAllGraphs for the next frame
HistoryReplaced ==
  /\ updatesEnabled
  /\ series < MaxRenders
  /\ series' = series + 1
  /\ frameCallbacks' = Append(frameCallbacks, AllCallback)
  /\ UNCHANGED <<containerReady, _renderRetryMap, issued, drawn>>
  /\ UNCHANGED vars
  /\ UNCHANGED dsVars
  /\ UNCHANGED fetchVars

\* line 464: layout gives the container of the connected card a size, or takes it away
ContainerBecomesReady ==
  /\ isConnected
  /\ ~containerReady
  /\ containerReady' = TRUE
  /\ UNCHANGED <<_renderRetryMap, frameCallbacks, series, issued, drawn>>
  /\ UNCHANGED vars
  /\ UNCHANGED dsVars
  /\ UNCHANGED fetchVars

ContainerBecomesNotReady ==
  /\ containerReady
  /\ containerReady' = FALSE
  /\ UNCHANGED <<_renderRetryMap, frameCallbacks, series, issued, drawn>>
  /\ UNCHANGED vars
  /\ UNCHANGED dsVars
  /\ UNCHANGED fetchVars

NextR ==
  \/ ConnectedCallback
  \/ DisconnectedCallback
  \/ HistoryReplaced
  \/ ContainerBecomesReady
  \/ ContainerBecomesNotReady
  \/ RenderFrame

SpecR == InitR /\ [][NextR]_allVars

\* the browser runs the callbacks queued for an animation frame
SpecRFair == SpecR /\ WF_allVars(RenderFrame)

(***************************************************************************)
(* The downsampler applied to the inputs of its domain.                    *)
(***************************************************************************)
\* the caller builds the states array
PushState ==
  /\ ~called
  /\ Len(states) < MaxStates
  /\ \E s \in Samples : states' = Append(states, s)
  /\ UNCHANGED <<hours, pointsPerHour, clock1, clock2, called, result>>
  /\ UNCHANGED vars
  /\ UNCHANGED fetchVars
  /\ UNCHANGED renderVars

\* one invocation of _downsampleHistory
CallDownsample ==
  /\ ~called
  /\ \E h \in HoursSet, p \in PointsPerHourSet, skew \in Skews :
       /\ hours' = h
       /\ pointsPerHour' = p
       /\ clock1' = CallTime - skew
       /\ clock2' = CallTime
       /\ result' = DownsampleHistory(states, h, p, CallTime - skew, CallTime)
       /\ states' = StatesAfterCall(states, p, CallTime - skew)
       /\ returned' = ReturnedArray(states, p)
  /\ called' = TRUE
  /\ UNCHANGED <<rawStates, hours_to_show, points_per_hour, fetchReturned>>
  /\ UNCHANGED vars
  /\ UNCHANGED renderVars

NextDS == PushState \/ CallDownsample

SpecDS == Init /\ [][NextDS]_allVars

(***************************************************************************)
(* _downsampleHistory in floating point, applied to the inputs of the      *)
(* floating-point domain.                                                  *)
(***************************************************************************)
PushFloatState ==
  /\ ~called
  /\ Len(states) < MaxStates
  /\ \E s \in FloatSamples : states' = Append(states, s)
  /\ UNCHANGED <<hours, pointsPerHour, clock1, clock2, called, result>>
  /\ UNCHANGED vars
  /\ UNCHANGED fetchVars
  /\ UNCHANGED renderVars

CallDownsampleFl ==
  /\ ~called
  /\ \E h \in FloatHoursSet, p \in FloatPointsPerHourSet, skew \in Skews :
       /\ hours' = h
       /\ pointsPerHour' = p
       /\ clock1' = CallTime - skew
       /\ clock2' = CallTime
       /\ result' = DownsampleHistoryFl(states, h, p, CallTime - skew, CallTime)
       /\ states' = StatesAfterCall(states, p, CallTime - skew)
       /\ returned' = ReturnedArray(states, p)
  /\ called' = TRUE
  /\ UNCHANGED <<rawStates, hours_to_show, points_per_hour, fetchReturned>>
  /\ UNCHANGED vars
  /\ UNCHANGED renderVars

NextFP == PushFloatState \/ CallDownsampleFl

SpecFP == Init /\ [][NextFP]_allVars

(***************************************************************************)
(* _fetchHistory applied to the history responses of its domain.           *)
(***************************************************************************)
\* the history source builds the entity's list of the response
PushRawState ==
  /\ ~fetchReturned
  /\ Len(rawStates) < MaxEntries
  /\ \E e \in RawEntries : rawStates' = Append(rawStates, e)
  /\ UNCHANGED <<hours_to_show, points_per_hour, fetchReturned, returned>>
  /\ UNCHANGED dsVars
  /\ UNCHANGED vars
  /\ UNCHANGED renderVars

\* lines 716-719: the response has no list for the entity
FetchHistoryNoStates ==
  /\ ~fetchReturned
  /\ rawStates = << >>
  /\ \E h \in HoursToShowSet, p \in PointsPerHourSettings :
       /\ hours_to_show' = h
       /\ points_per_hour' = p
  /\ fetchReturned' = TRUE
  /\ result' = << >>
  /\ UNCHANGED <<rawStates, returned>>
  /\ UNCHANGED <<states, hours, pointsPerHour, clock1, clock2, called>>
  /\ UNCHANGED vars
  /\ UNCHANGED renderVars

\* lines 697-698, 716-730: the response has a list for the entity; it is
\* coerced, filtered and handed to _downsampleHistory
FetchHistoryStates ==
  /\ ~fetchReturned
  /\ \E h \in HoursToShowSet, p \in PointsPerHourSettings, skew \in Skews :
       LET hoursToShow == OrDefault(h, DEFAULT_HOURS_TO_SHOW)
           perHour == OrDefault(p, DEFAULT_POINTS_PER_HOUR)
           finalStates == FinalStates(rawStates)
       IN /\ hours_to_show' = h
          /\ points_per_hour' = p
          /\ states' = StatesAfterCall(finalStates, perHour, CallTime - skew)
          /\ hours' = hoursToShow
          /\ pointsPerHour' = perHour
          /\ clock1' = CallTime - skew
          /\ clock2' = CallTime
          /\ result' = DownsampleHistory(finalStates, hoursToShow, perHour, CallTime - skew, CallTime)
          /\ returned' = ReturnedArray(finalStates, perHour)
  /\ called' = TRUE
  /\ fetchReturned' = TRUE
  /\ UNCHANGED rawStates
  /\ UNCHANGED vars
  /\ UNCHANGED renderVars

NextFH == PushRawState \/ FetchHistoryNoStates \/ FetchHistoryStates

SpecFH == Init /\ [][NextFH]_allVars

(***************************************************************************)
(* Vocabulary of the downsampler's properties, stated from the result.     *)
(***************************************************************************)
\* the call took the bucketing path
Bucketed == called /\ pointsPerHour.n > 0 /\ Len(states) > 0

\* now - hours, in ms
WindowStart == clock2 - HoursToMs(hours)

\* the buckets of the result are its elements 2..Len(result); bucket i is result[i + 1]
BucketIndexes == 1..(Len(result) - 1)

\* bucket i covers [BucketStart(i), BucketEnd(i)); both times pointsPerHour.n
\* so that one hour / pointsPerHour needs no division
ScaledBucketStart(i) == WindowStart * pointsPerHour.n + (i - 1) * MS_IN_H * pointsPerHour.d
ScaledBucketEnd(i) == WindowStart * pointsPerHour.n + i * MS_IN_H * pointsPerHour.d

\* the sequence whose consecutive pairs carry the values: the states followed
\* by the terminal marker created when the call reads the clock (line 631)
Timeline == Append(states, [timestamp |-> clock1, value |-> states[Len(states)].value])

\* length of [Timeline[k], Timeline[k+1]) intersected with bucket i, times pointsPerHour.n
ScaledOverlap(k, i) ==
  Max(0, Min(Timeline[k + 1].timestamp * pointsPerHour.n, ScaledBucketEnd(i))
         - Max(Timeline[k].timestamp * pointsPerHour.n, ScaledBucketStart(i)))

RECURSIVE SumOverlap(_, _)
SumOverlap(k, i) == IF k = 0 THEN 0 ELSE SumOverlap(k - 1, i) + ScaledOverlap(k, i)

RECURSIVE SumWeighted(_, _)
SumWeighted(k, i) ==
  IF k = 0 THEN Num(0)
  ELSE RatAdd(SumWeighted(k - 1, i), RatScale(Timeline[k].value, ScaledOverlap(k, i)))

TotalOverlap(i) == SumOverlap(Len(states), i)
TimeWeightedMean(i) == RatDivInt(SumWeighted(Len(states), i), TotalOverlap(i))

NonDecreasing == \A j \in 1..(Len(states) - 1) : states[j].timestamp <= states[j + 1].timestamp

(***************************************************************************)
(* C1: _downsampleHistory returns its input sequence unchanged (same       *)
(* elements, same order, no anchor, no terminal marker) whenever           *)
(* pointsPerHour <= 0, for any states and hours, or states is empty, for   *)
(* any hours and pointsPerHour.                                            *)
(***************************************************************************)
C1_PassThrough ==
  called /\ (pointsPerHour.n <= 0 \/ Len(states) = 0) => result = states

C1_Witness ==
  called /\ pointsPerHour.n <= 0 /\ Len(states) >= 2 /\ hours.n > 0 /\ result = states

(***************************************************************************)
(* C2: for pointsPerHour > 0 and non-empty states, every bucket whose      *)
(* total overlap is positive has the value                                 *)
(* sum_k(value_k * overlap_k) / sum_k(overlap_k), k ranging over the       *)
(* consecutive pairs of the states followed by the terminal marker that    *)
(* the call places at the current time: the time-weighted mean.            *)
(***************************************************************************)
C2_TimeWeightedMean ==
  Bucketed =>
    \A i \in BucketIndexes :
      TotalOverlap(i) > 0 => result[i + 1].value = TimeWeightedMean(i)

\* a bucket in which two different values were in effect for different times
C2_Witness ==
  /\ Bucketed
  /\ \E i \in BucketIndexes : \E k, m \in 1..Len(states) :
       /\ ScaledOverlap(k, i) > ScaledOverlap(m, i)
       /\ ScaledOverlap(m, i) > 0
       /\ Timeline[k].value # Timeline[m].value
       /\ result[i + 1].value = TimeWeightedMean(i)

(***************************************************************************)
(* C3: for pointsPerHour > 0, hours > 0 and non-empty states the result    *)
(* has exactly ceil(hours * pointsPerHour) + 1 elements.                   *)
(***************************************************************************)
C3_Length ==
  Bucketed /\ hours.n > 0 =>
    Len(result) = CeilDiv(hours.n * pointsPerHour.n, hours.d * pointsPerHour.d) + 1

\* hours * pointsPerHour is not an integer
C3_Witness ==
  /\ Bucketed /\ hours.n > 0
  /\ (hours.n * pointsPerHour.n) % (hours.d * pointsPerHour.d) # 0
  /\ Len(result) = 3

(***************************************************************************)
(* C4: for pointsPerHour > 0 and non-empty states the first element of the *)
(* result is a synthetic anchor with timestamp now - hours and value       *)
(* states[0].value, whatever the timestamp of states[0]; it precedes all   *)
(* buckets.                                                                *)
(***************************************************************************)
C4_Anchor ==
  Bucketed =>
    /\ Len(result) >= 1
    /\ result[1].timestamp = WindowStart
    /\ result[1].value = states[1].value
    /\ \A j \in 2..Len(result) : result[1].timestamp < result[j].timestamp

C4_Witness ==
  /\ Bucketed /\ Len(result) >= 3
  /\ states[1].timestamp # WindowStart
  /\ result[1].timestamp = WindowStart
  /\ result[2].value # states[1].value

(***************************************************************************)
(* C5: for pointsPerHour > 0 and non-empty states the i-th bucket of the   *)
(* result carries the timestamp windowStart + i * bucketWidth, the end of  *)
(* its interval, and timestamps strictly increase along the result.        *)
(***************************************************************************)
C5_BucketTimestamps ==
  Bucketed =>
    /\ \A i \in BucketIndexes : result[i + 1].timestamp * pointsPerHour.n = ScaledBucketEnd(i)
    /\ \A j \in 1..(Len(result) - 1) : result[j].timestamp < result[j + 1].timestamp

C5_Witness ==
  Bucketed /\ Len(result) >= 4 /\ result[4].timestamp = WindowStart + 3 * (MS_IN_H \div 2)

(***************************************************************************)
(* C6: for non-decreasing timestamps, a bucket that ends at or before now, *)
(* starts at or after the first sample and has no sample timestamp         *)
(* strictly inside has exactly the value of the last sample, in sequence   *)
(* order, whose timestamp is <= the bucket's start.                        *)
(***************************************************************************)
HeldAt(i) ==
  LET before == {j \in 1..Len(states) : states[j].timestamp * pointsPerHour.n <= ScaledBucketStart(i)}
  IN states[CHOOSE j \in before : \A m \in before : m <= j].value

Quiet(i) ==
  /\ ScaledBucketEnd(i) <= clock2 * pointsPerHour.n
  /\ states[1].timestamp * pointsPerHour.n <= ScaledBucketStart(i)
  /\ \A j \in 1..Len(states) :
       ~(/\ ScaledBucketStart(i) < states[j].timestamp * pointsPerHour.n
         /\ states[j].timestamp * pointsPerHour.n < ScaledBucketEnd(i))

C6_HeldValue ==
  Bucketed /\ NonDecreasing =>
    \A i \in BucketIndexes : Quiet(i) => result[i + 1].value = HeldAt(i)

\* the held value is that of a state change inside the window, not the first
\* sample's, and a later sample with another value follows the bucket
C6_Witness ==
  /\ Bucketed /\ NonDecreasing /\ Len(states) = 3
  /\ \E i \in BucketIndexes :
       /\ Quiet(i)
       /\ result[i + 1].value = states[2].value
       /\ states[2].value # states[1].value
       /\ states[3].value # states[2].value
       /\ states[2].timestamp < states[3].timestamp

(***************************************************************************)
(* C7: for pointsPerHour > 0 and non-empty input every bucket whose total  *)
(* overlapping sample duration is zero has the value of the immediately    *)
(* preceding bucket, or of the anchor if it is the first bucket.           *)
(***************************************************************************)
C7_CarryForward ==
  Bucketed =>
    \A i \in BucketIndexes :
      TotalOverlap(i) = 0 => result[i + 1].value = result[i].value

\* the same when the clock does not advance between the two clock reads
C7_WhenClockStands ==
  Bucketed /\ clock1 = clock2 =>
    \A i \in BucketIndexes :
      TotalOverlap(i) = 0 => result[i + 1].value = result[i].value

\* a second bucket without overlap, carrying a non-zero value
C7_Witness ==
  /\ Bucketed /\ Len(result) >= 4
  /\ TotalOverlap(2) = 0
  /\ TotalOverlap(3) > 0
  /\ result[3].value = Num(1)

(***************************************************************************)
(* C8 as stated: for resolution > 0 and non-empty input the bucket width   *)
(* is windowDuration / resolution and the result has                       *)
(* ceil(windowDuration / (windowDuration / resolution)) + 1 elements.      *)
(***************************************************************************)
C8_AsStated ==
  Bucketed /\ hours.n > 0 =>
    /\ Len(result) = CeilDiv(HoursToMs(hours) * pointsPerHour.n, HoursToMs(hours) * pointsPerHour.d) + 1
    /\ \A j \in 1..(Len(result) - 1) :
         (result[j + 1].timestamp - result[j].timestamp) * pointsPerHour.n
           = HoursToMs(hours) * pointsPerHour.d

(***************************************************************************)
(* C8 amended: for resolution > 0 and non-empty input the bucket width is  *)
(* one hour / resolution, and for windowDuration >= 0 the result has       *)
(* ceil(windowDuration / bucketWidth) + 1 elements, the anchor included.   *)
(***************************************************************************)
C8_WidthAndLength ==
  Bucketed =>
    /\ \A j \in 1..(Len(result) - 1) :
         (result[j + 1].timestamp - result[j].timestamp) * pointsPerHour.n
           = MS_IN_H * pointsPerHour.d
    /\ hours.n >= 0 =>
         Len(result) = CeilDiv(HoursToMs(hours) * pointsPerHour.n, MS_IN_H * pointsPerHour.d) + 1

\* a window of one and a half hours cut into half-hour buckets
C8_Witness ==
  /\ Bucketed /\ hours = Rat(3, 2) /\ pointsPerHour = Num(2)
  /\ Len(result) = 4
  /\ result[2].timestamp - result[1].timestamp = MS_IN_H \div 2

(***************************************************************************)
(* C9: setConfig called with a missing config, or with entities missing,   *)
(* not an array, or empty, throws 'You need to define at least one entity' *)
(* and leaves _config, _entities, _history, _historyFetched and the        *)
(* refresh timer exactly as they were before the call.                     *)
(***************************************************************************)
C9_RejectedSetConfig ==
  [][\A config \in InvalidConfigs :
       SetConfig(config) => thrown' = NoEntitiesError /\ UNCHANGED cardState]_allVars

\* a configured card with a live timer and a stored history has just rejected a call
C9_Witness ==
  /\ thrown = NoEntitiesError
  /\ _config.kind = "object"
  /\ _historyFetched
  /\ timers # {}
  /\ MapSize(_history) = 2

(***************************************************************************)
(* C10: when the history request for an entity fails during a refresh      *)
(* cycle, then once that cycle completes _history holds no entry for that  *)
(* entity, while every entity whose request succeeded in the same cycle    *)
(* has its new series stored; the refresh cycle itself never rejects.      *)
(***************************************************************************)
Completes(c) == Pending(c) = {} /\ c \notin cycles'

C10_FailedAbsentSucceededStored ==
  [][/\ thrown' # UnhandledRejection
     /\ \A c \in cycles :
          Completes(c) =>
            \A idx \in 1..Len(c.ids) :
              /\ c.settled[idx] = "failed" => _history'[c.ids[idx]] = Absent
              /\ c.settled[idx] = "ok" => _history'[c.ids[idx]] = [cycle |-> c.number, id |-> c.ids[idx]]
    ]_allVars

\* the same for the entities whose history id no other entity of the cycle shares
RequestedOnce(c, idx) == \A m \in 1..Len(c.ids) : c.ids[m] = c.ids[idx] => m = idx

C10_WhenRequestedOnce ==
  [][/\ thrown' # UnhandledRejection
     /\ \A c \in cycles :
          Completes(c) =>
            /\ \A idx \in 1..Len(c.ids) :
                 RequestedOnce(c, idx) =>
                   /\ c.settled[idx] = "failed" => _history'[c.ids[idx]] = Absent
                   /\ c.settled[idx] = "ok" =>
                        _history'[c.ids[idx]] = [cycle |-> c.number, id |-> c.ids[idx]]
            /\ \A id \in Ids : _history'[id] # Absent => _history'[id].cycle = c.number
    ]_allVars

(***************************************************************************)
(* C11: stale results are discarded: a refresh cycle that was started      *)
(* before the latest setConfig, or that a later-started cycle has already  *)
(* overtaken by completing first, never overwrites _history.               *)
(***************************************************************************)
\* a cycle started after c has already completed
Overtaken(c) ==
  \E k \in (c.number + 1)..(nextCycle - 1) : \A d \in cycles : d.number # k

C11_StaleDiscarded ==
  [][\A c \in cycles :
       Completes(c) /\ (c.stale \/ Overtaken(c)) => UNCHANGED _history]_allVars

(***************************************************************************)
(* C12: every sample that _fetchHistory passes to _downsampleHistory has a *)
(* finite numeric value: 'on' becomes 1, 'off' becomes 0, any other state  *)
(* string is parsed as a number, every entry whose state is not a finite   *)
(* number is dropped, and the kept entries stay in the response's order.   *)
(***************************************************************************)
HasFiniteValue(s) == IsFinite(s.value)

C12_FiniteSamples ==
  fetchReturned /\ called =>
    /\ \A j \in 1..Len(states) : IsFinite(states[j].value)
    /\ states = SelectSeq([j \in 1..Len(rawStates) |->
                             [timestamp |-> rawStates[j].lu * MS_IN_S,
                              value |-> IF rawStates[j].s = "on" THEN Num(1)
                                        ELSE IF rawStates[j].s = "off" THEN Num(0)
                                        ELSE NumberOf(rawStates[j].s)]],
                          HasFiniteValue)

(***************************************************************************)
(* C13: for every history response with at least one parseable entry the   *)
(* first sample passed to _downsampleHistory is the response's first       *)
(* entry, the state in effect at the start of the window; hence the anchor *)
(* never takes the value of a state change that happened later.            *)
(***************************************************************************)
Parseable(e) == ~IsNaN(CoerceValue(e.s))

C13_FirstSampleIsFirstEntry ==
  fetchReturned /\ called /\ (\E j \in 1..Len(rawStates) : Parseable(rawStates[j])) =>
    /\ states[1].timestamp = rawStates[1].lu * MS_IN_S
    /\ states[1].value = CoerceValue(rawStates[1].s)
    /\ pointsPerHour.n > 0 => result[1].value = CoerceValue(rawStates[1].s)

(***************************************************************************)
(* C14: for every configured entity history is requested for its           *)
(* graph_entity when one is configured and otherwise for its entity id, is *)
(* stored in _history under that id and is looked up by _renderAllGraphs   *)
(* under that id; so after a refresh cycle in which all requests succeed   *)
(* every configured entity's graph container finds its series.             *)
(***************************************************************************)
AllSucceeded(c) == \A idx \in 1..Len(c.ids) : c.settled[idx] = "ok"

C14_ContainersFindSeries ==
  [][\A c \in cycles :
       Completes(c) /\ AllSucceeded(c) =>
         \A j \in 1..Len(_entities) :
           /\ LookupId(_entities, _entities[j].entity) = GraphEntityId(_entities[j])
           /\ _history'[LookupId(_entities, _entities[j].entity)] # Absent]_allVars

\* the same for a cycle that no setConfig has made stale
C14_WhenNotStale ==
  [][\A c \in cycles :
       Completes(c) /\ AllSucceeded(c) /\ ~c.stale =>
         \A j \in 1..Len(_entities) :
           /\ LookupId(_entities, _entities[j].entity) = GraphEntityId(_entities[j])
           /\ c.ids[j] = GraphEntityId(_entities[j])
           /\ _history'[LookupId(_entities, _entities[j].entity)] =
                [cycle |-> c.number, id |-> GraphEntityId(_entities[j])]]_allVars

(***************************************************************************)
(* C15: within one invocation the terminal marker carries the last real    *)
(* sample's value and has exactly the timestamp now from which windowStart *)
(* and the bucket boundaries are computed, also when the clock advances    *)
(* between the clock reads; the output depends only on the arguments and   *)
(* that single now.                                                        *)
(***************************************************************************)
C15_MarkerAtNow ==
  Bucketed /\ hours.n > 0 =>
    /\ Timeline[Len(Timeline)].value = states[Len(states)].value
    /\ Timeline[Len(Timeline)].timestamp = clock2
    /\ result = DownsampleHistory(states, hours, pointsPerHour, clock2, clock2)

(***************************************************************************)
(* C16: _downsampleHistory has no side effects: the call leaves the states *)
(* array (length, order, elements) and every field of the component        *)
(* unchanged, and for pointsPerHour > 0 with non-empty states it returns a *)
(* newly built array, not the input array.                                 *)
(***************************************************************************)
C16_NoSideEffects ==
  [][~called /\ called' =>
       /\ states' = states
       /\ UNCHANGED vars
       /\ UNCHANGED renderVars
       /\ (pointsPerHour'.n > 0 /\ Len(states) > 0 => returned' = "downsampled")]_allVars

C16_Witness ==
  /\ Bucketed /\ Len(states) = MaxStates /\ Len(result) > 1
  /\ returned = "downsampled" /\ result # states

(***************************************************************************)
(* C17: _fetchHistory calls _downsampleHistory with exactly the configured *)
(* hours_to_show and points_per_hour whenever they are configured (the     *)
(* defaults 24 and 1 apply only when a setting is absent); a configured    *)
(* points_per_hour of 0 disables downsampling, so the series stored for    *)
(* the entity is the raw coerced state list.                               *)
(***************************************************************************)
C17_ConfiguredSettings ==
  fetchReturned /\ called =>
    /\ hours = IF hours_to_show.defined THEN hours_to_show.value ELSE Num(24)
    /\ pointsPerHour = IF points_per_hour.defined THEN points_per_hour.value ELSE Num(1)
    /\ points_per_hour = Setting(Num(0)) => result = FinalStates(rawStates)

(***************************************************************************)
(* C18: when hours * pointsPerHour is not an integer the last bucket is    *)
(* truncated at now: no timestamp in the result is later than now.         *)
(***************************************************************************)
C18_NoTimestampAfterNow ==
  Bucketed /\ hours.n > 0 /\ (hours.n * pointsPerHour.n) % (hours.d * pointsPerHour.d) # 0 =>
    \A j \in 1..Len(result) : result[j].timestamp <= clock2

(***************************************************************************)
(* C19: for pointsPerHour > 0 a sample whose effective interval (from its  *)
(* timestamp to the next sample's timestamp, or to now for the last        *)
(* sample) lies entirely outside [windowStart, now) contributes nothing:   *)
(* two inputs that differ only in the value of such a sample produce       *)
(* identical results.                                                      *)
(***************************************************************************)
EffectiveEnd(j) == IF j < Len(states) THEN states[j + 1].timestamp ELSE clock2
OutsideWindow(j) == EffectiveEnd(j) <= WindowStart \/ states[j].timestamp >= clock2
WithValue(j, v) == [states EXCEPT ![j].value = v]

C19_OutsideContributesNothing ==
  Bucketed /\ hours.n > 0 =>
    \A j \in 1..Len(states) :
      OutsideWindow(j) =>
        \A v \in Values :
          DownsampleHistory(WithValue(j, v), hours, pointsPerHour, clock1, clock2) = result

\* C19 as it holds: when no sample lies after now, the value of a sample
\* other than the first whose effective interval lies entirely outside
\* [windowStart, now) does not influence the result; the first sample's value
\* always does, being the anchor's value (line 685) and the value carried
\* into the leading buckets (line 640)
NoneAfterNow == \A j \in 1..Len(states) : states[j].timestamp <= clock2

C19_AfterTheFirst ==
  Bucketed /\ NoneAfterNow =>
    \A j \in 2..Len(states) :
      OutsideWindow(j) =>
        \A v \in Values :
          DownsampleHistory(WithValue(j, v), hours, pointsPerHour, clock1, clock2) = result

\* a sample between two others that ends before the window starts and whose
\* value is that of neither neighbour, in a call that built buckets
C19_Witness ==
  /\ Bucketed /\ NoneAfterNow /\ hours.n > 0 /\ Len(result) > 1
  /\ Len(states) = 3
  /\ states[1].timestamp < states[2].timestamp
  /\ states[2].timestamp < states[3].timestamp
  /\ OutsideWindow(2)
  /\ states[2].value # states[1].value
  /\ states[2].value # states[3].value

(***************************************************************************)
(* C20: when several state changes fall inside one bucket the bucket's     *)
(* value is the median of those samples' values, and a bucket that         *)
(* contains exactly one state change has exactly that sample's value.      *)
(***************************************************************************)
\* the samples whose timestamp lies strictly inside bucket i
InsideBucket(i) ==
  {j \in 1..Len(states) :
     /\ ScaledBucketStart(i) < states[j].timestamp * pointsPerHour.n
     /\ states[j].timestamp * pointsPerHour.n < ScaledBucketEnd(i)}

\* the median of the values of the samples in S, the values being 0 or 1
Median(S) ==
  LET ones == Cardinality({j \in S : states[j].value = Num(1)})
  IN IF 2 * ones > Cardinality(S) THEN Num(1)
     ELSE IF 2 * ones < Cardinality(S) THEN Num(0)
     ELSE Rat(1, 2)

Increasing == \A j \in 1..(Len(states) - 1) : states[j].timestamp < states[j + 1].timestamp

C20_Median ==
  Bucketed /\ Increasing /\ hours.n > 0 =>
    \A i \in BucketIndexes :
      InsideBucket(i) # {} => result[i + 1].value = Median(InsideBucket(i))

\* C20 as it holds: a bucket with state changes inside it has the time-weighted
\* mean of the values in effect during the bucket; when exactly one state
\* change, at time t, falls inside a bucket [bucketStart, bucketEnd) that the
\* timeline covers to its end, the value is
\* (previous value * (t - bucketStart) + the sample's value * (bucketEnd - t))
\* / (bucketEnd - bucketStart)
CoveredToEnd(i, j) == j < Len(states) \/ ScaledBucketEnd(i) <= clock1 * pointsPerHour.n

OneChangeValue(i, j) ==
  RatDivInt(RatAdd(RatScale(states[j - 1].value,
                            states[j].timestamp * pointsPerHour.n - ScaledBucketStart(i)),
                   RatScale(states[j].value,
                            ScaledBucketEnd(i) - states[j].timestamp * pointsPerHour.n)),
            MS_IN_H * pointsPerHour.d)

C20_WeightedMean ==
  Bucketed /\ Increasing /\ hours.n > 0 =>
    \A i \in BucketIndexes :
      /\ InsideBucket(i) # {} /\ TotalOverlap(i) > 0 =>
           result[i + 1].value = TimeWeightedMean(i)
      /\ \A j \in 2..Len(states) :
           InsideBucket(i) = {j} /\ CoveredToEnd(i, j) =>
             result[i + 1].value = OneChangeValue(i, j)

\* a bucket with exactly one state change inside it, from 0 to 1 or from 1 to
\* 0, whose value is neither
C20_Witness ==
  /\ Bucketed /\ Increasing /\ hours.n > 0
  /\ \E i \in BucketIndexes : \E j \in 2..Len(states) :
       /\ InsideBucket(i) = {j}
       /\ CoveredToEnd(i, j)
       /\ states[j - 1].value # states[j].value
       /\ result[i + 1].value # states[j].value
       /\ result[i + 1].value = OneChangeValue(i, j)


(***************************************************************************)
(* C21: an overlap of zero duration between a sample's interval and a      *)
(* bucket contributes nothing to that bucket's weighted sum or total       *)
(* duration: a sample whose timestamp equals the bucket's end, or that     *)
(* shares its timestamp with its successor, adds no weight to that         *)
(* bucket's average, so the average does not depend on that sample's value.*)
(***************************************************************************)
\* start and end of lines 657-658 for the pair starting at sample j and bucket i,
\* times pointsPerHour.n
ScaledStart(j, i) == Max(Timeline[j].timestamp * pointsPerHour.n, ScaledBucketStart(i))
ScaledEnd(j, i) == Min(Timeline[j + 1].timestamp * pointsPerHour.n, ScaledBucketEnd(i))

ZeroDuration(j, i) ==
  \/ ScaledStart(j, i) = ScaledEnd(j, i)
  \/ states[j].timestamp * pointsPerHour.n = ScaledBucketEnd(i)
  \/ j < Len(states) /\ states[j].timestamp = states[j + 1].timestamp

C21_ZeroOverlapNoWeight ==
  Bucketed =>
    \A i \in BucketIndexes : \A j \in 1..Len(states) :
      TotalOverlap(i) > 0 /\ ZeroDuration(j, i) =>
        /\ ScaledOverlap(j, i) = 0
        /\ \A v \in Values :
             DownsampleHistory(WithValue(j, v), hours, pointsPerHour, clock1, clock2)[i + 1].value
               = result[i + 1].value

\* an averaged bucket that ends at the timestamp of a sample of another value,
\* and an averaged bucket holding the timestamp of a sample of another value
\* that its successor replaces at once
C21_Witness ==
  /\ Bucketed /\ hours.n > 0
  /\ \E i \in BucketIndexes : \E j \in 2..Len(states) :
       /\ TotalOverlap(i) > 0
       /\ states[j].timestamp * pointsPerHour.n = ScaledBucketEnd(i)
       /\ states[j].value # result[i + 1].value
  /\ \E i \in BucketIndexes : \E j \in 1..(Len(states) - 1) :
       /\ TotalOverlap(i) > 0
       /\ states[j].timestamp = states[j + 1].timestamp
       /\ ScaledBucketStart(i) <= states[j].timestamp * pointsPerHour.n
       /\ states[j].timestamp * pointsPerHour.n < ScaledBucketEnd(i)
       /\ states[j].value # result[i + 1].value

(***************************************************************************)
(* C22: for input with non-decreasing timestamps none later than now, a    *)
(* bucket has zero total overlap only if it ends at or before the first    *)
(* sample's timestamp: the zero-overlap buckets form a prefix of the       *)
(* bucket sequence and each takes states[0].value, and when the first      *)
(* sample is at or before windowStart no bucket takes the carry-forward    *)
(* branch at all.                                                          *)
(***************************************************************************)
C22_ZeroOverlapPrefix ==
  Bucketed /\ NonDecreasing /\ NoneAfterNow =>
    /\ \A i \in BucketIndexes :
         TotalOverlap(i) = 0 =>
           /\ ScaledBucketEnd(i) <= states[1].timestamp * pointsPerHour.n
           /\ \A m \in 1..i : TotalOverlap(m) = 0
           /\ result[i + 1].value = states[1].value
    /\ states[1].timestamp <= WindowStart =>
         \A i \in BucketIndexes : TotalOverlap(i) > 0

\* the same when the clock does not advance between the two clock reads
C22_WhenClockStands ==
  Bucketed /\ NonDecreasing /\ NoneAfterNow /\ clock1 = clock2 =>
    /\ \A i \in BucketIndexes :
         TotalOverlap(i) = 0 =>
           /\ ScaledBucketEnd(i) <= states[1].timestamp * pointsPerHour.n
           /\ \A m \in 1..i : TotalOverlap(m) = 0
           /\ result[i + 1].value = states[1].value
    /\ states[1].timestamp <= WindowStart =>
         \A i \in BucketIndexes : TotalOverlap(i) > 0

(***************************************************************************)
(* C23: for every non-empty input with non-decreasing timestamps,          *)
(* pointsPerHour > 0 and hours >= 0, _downsampleHistory terminates and     *)
(* returns a series without throwing, and the division                     *)
(* weightedSum / totalDurationInBucket is executed only when               *)
(* totalDurationInBucket > 0: the call returns the array it built, the     *)
(* anchor and one element per bucket, no value in it is the NaN of a       *)
(* division by zero, and a bucket without overlap holds a sample's value.  *)
(***************************************************************************)
SampleValues == {states[k].value : k \in 1..Len(states)}

C23_TotalAndGuarded ==
  called /\ Len(states) > 0 /\ NonDecreasing /\ pointsPerHour.n > 0 /\ hours.n >= 0 =>
    /\ returned = "downsampled"
    /\ Len(result) = 1 + CeilDiv(HoursToMs(hours) * pointsPerHour.n, MS_IN_H * pointsPerHour.d)
    /\ \A j \in 1..Len(result) : IsFinite(result[j].value)
    /\ \A i \in BucketIndexes : TotalOverlap(i) = 0 => result[i + 1].value \in SampleValues

\* a call that met a bucket without overlap and divided for another one
C23_Witness ==
  /\ called /\ Len(states) > 0 /\ NonDecreasing /\ pointsPerHour.n > 0 /\ hours.n > 0
  /\ returned = "downsampled"
  /\ \E i \in BucketIndexes : TotalOverlap(i) = 0
  /\ \E i \in BucketIndexes : TotalOverlap(i) > 0 /\ result[i + 1].value \notin SampleValues

(***************************************************************************)
(* C24: after a successful setConfig, once hass is available, the next     *)
(* update starts exactly one refresh cycle for the new configuration, and  *)
(* no later update starts another one until setConfig is called again;     *)
(* apart from that only refresh-timer ticks start refresh cycles.          *)
(***************************************************************************)
CycleStarts == nextCycle' = nextCycle + 1
Configured == _config.kind # "undefined"

C24_OneCyclePerConfig ==
  [][/\ CycleStarts => Update \/ TimerTick
     /\ CycleStarts => \E c \in cycles' : /\ c.number = nextCycle
                                          /\ ~c.stale
                                          /\ Len(c.ids) = Len(_entities)
                                          /\ \A j \in 1..Len(_entities) :
                                               c.ids[j] = GraphEntityId(_entities[j])
     \* the first update with hass after setConfig starts a cycle and sets the flag
     /\ Update /\ Configured /\ hass /\ ~_historyFetched => CycleStarts /\ _historyFetched'
     \* an update under the set flag starts none
     /\ Update /\ _historyFetched => ~CycleStarts
     \* and only a successful setConfig clears the flag
     /\ _historyFetched /\ ~_historyFetched' =>
          \E config \in ValidConfigs : SetConfig(config)]_allVars

\* the cycle that the update started has completed, a later update has run, and
\* no timer exists that could have started a cycle
C24_Witness ==
  /\ Configured /\ hass /\ _historyFetched
  /\ _config.update_interval = 0
  /\ timers = {}
  /\ nextCycle = 2
  /\ cycles = {}
  /\ MapSize(_history) > 0
  /\ changed = {}
  /\ rafPending

(***************************************************************************)
(* C25: after any sequence of setConfig, connectedCallback and             *)
(* disconnectedCallback calls at most one refresh interval timer is live;  *)
(* if one is live its period is the current configuration's                *)
(* update_interval in seconds, and none is live when the current           *)
(* configuration has no update_interval (absent or 0).                     *)
(***************************************************************************)
C25_OneTimer ==
  /\ Cardinality(timers) <= 1
  /\ \A t \in timers : /\ Configured
                       /\ t.period = _config.update_interval * MS_IN_S
                       /\ t.id = _timerId
  /\ (~Configured \/ _config.update_interval = 0) => timers = {}

\* the live timer of the configuration with the 60 s interval, on a connected
\* card that has started a refresh cycle
C25_Witness ==
  /\ Cardinality(timers) = 1
  /\ _config.update_interval = 60
  /\ \E t \in timers : t.period = 60 * MS_IN_S
  /\ isConnected
  /\ nextCycle > 1

(***************************************************************************)
(* C26: no refresh interval timer is live while the element is             *)
(* disconnected from the DOM: in every state reachable by setConfig,       *)
(* connectedCallback and disconnectedCallback calls in any order a live    *)
(* timer implies that the element is connected.                            *)
(***************************************************************************)
C26_NoTimerWhileDisconnected == timers # {} => isConnected

\* what holds: a timer outlives a disconnect only if setConfig created it since
C26_DisconnectClears ==
  [][DisconnectedCallback => timers' = {} /\ _timerId' = 0]_allVars

(***************************************************************************)
(* C27: the retry counter kept for a container in _renderRetryMap never    *)
(* exceeds 10: _renderD3Graph on a container that is not ready re-schedules*)
(* itself only while the counter is below 10, so for a container that      *)
(* never becomes ready the chain of re-scheduled callbacks stops after at  *)
(* most 10 retries, and a render on a ready container removes the counter. *)
(***************************************************************************)
C27_RetryBound ==
  [][/\ _renderRetryMap' <= MAX_RETRIES
     \* on a container that is not ready every re-scheduled callback counts
     /\ RenderFrame /\ ~containerReady =>
          /\ _renderRetryMap' = _renderRetryMap + Len(frameCallbacks')
          /\ Len(frameCallbacks') <= MAX_RETRIES - _renderRetryMap
          /\ drawn' = drawn
     \* on a ready container every callback renders and the counter is removed
     /\ RenderFrame /\ containerReady =>
          /\ _renderRetryMap' = 0
          /\ frameCallbacks' = << >>]_allVars

\* the container never became ready and the last callback of the chain has given up
C27_Witness ==
  /\ _renderRetryMap = MAX_RETRIES
  /\ ~containerReady
  /\ isConnected
  /\ frameCallbacks = << >>
  /\ series = 1
  /\ issued = 1
  /\ drawn = 0

(***************************************************************************)
(* C28: if an entity has a non-empty stored history and its graph          *)
(* container eventually becomes ready and stays ready, then the graph for  *)
(* that container is eventually drawn, given that scheduled                *)
(* animation-frame callbacks eventually run, and without a further         *)
(* history, config or editMode change.                                     *)
(***************************************************************************)
C28_EventuallyDrawn ==
  \A h \in 1..MaxRenders :
    <>[](containerReady /\ series = h) => <>(drawn = h)

\* what holds: a callback that runs on the ready container draws its history
C28_DrawnWhenReadyInTime ==
  [][RenderFrame /\ containerReady => drawn' \in 1..MaxRenders]_allVars

(***************************************************************************)
(* C29: when several render requests for the same container are pending   *)
(* at once, then once the container is ready and all pending callbacks     *)
(* have run, the graph shown in the container is the one drawn from the    *)
(* most recently issued request's history, never from an older request's.  *)
(***************************************************************************)
C29_NewestRequestWins ==
  [][RenderFrame /\ containerReady => drawn' = issued']_allVars

\* what holds: the callbacks run in the order queued and the last one's history shows
C29_LastCallbackWins ==
  [][RenderFrame /\ containerReady =>
       LET last == frameCallbacks[Len(frameCallbacks)]
       IN drawn' = IF last.kind = "all" THEN series ELSE last.history]_allVars

(***************************************************************************)
(* C30: for pointsPerHour > 0 and non-empty states with any timestamps,    *)
(* every value in the result (the anchor and every bucket, whether         *)
(* averaged or carried forward) lies between the minimum and the maximum   *)
(* of the input sample values; in particular an input whose samples all    *)
(* have value v yields a result whose values are all v.                    *)
(***************************************************************************)
RatLeq(a, b) == a.n * b.d <= b.n * a.d
RatAbs(a) == [n |-> Abs(a.n), d |-> a.d]
IsMinValue(v) == v \in SampleValues /\ \A w \in SampleValues : RatLeq(v, w)
IsMaxValue(v) == v \in SampleValues /\ \A w \in SampleValues : RatLeq(w, v)
IsMaxAbs(m) == m \in {RatAbs(w) : w \in SampleValues} /\ \A w \in SampleValues : RatLeq(RatAbs(w), m)
ValuesSettled == called /\ Len(states) > 0 /\ pointsPerHour.n > 0

C30_WithinRange ==
  ValuesSettled =>
    \A i \in 1..Len(result) : \E lo \in SampleValues, hi \in SampleValues :
      RatLeq(lo, result[i].value) /\ RatLeq(result[i].value, hi)

\* the exact time-weighted mean does lie in the range (value domain of SpecDS)
C30_ExactMeanWithinRange ==
  ValuesSettled /\ (\A k \in 1..Len(states) : IsFinite(states[k].value)) => C30_WithinRange

\* the bucket whose end is result[i] is averaged: some pair overlaps it (line 667)
Averaged(i) ==
  LET startTime == StartTime(clock2, hours)
      interval == Interval(hours, pointsPerHour)
      bucketStartTime == startTime + (i - 2) * interval
  IN BucketScan(StatesWithEndpoints(states, clock1), bucketStartTime,
                bucketStartTime + interval).totalDurationInBucket > 0

\* v lies within the range of the sample values widened by the accumulated
\* rounding error: 2n roundings of relative size 2^-Precision, n samples
WithinRoundedRange(v) ==
  LET k == 2 * Len(states)
      scale == 2^Precision - k
  IN \E lo \in SampleValues, hi \in SampleValues, m \in {RatAbs(w) : w \in SampleValues} :
       /\ IsMinValue(lo) /\ IsMaxValue(hi) /\ IsMaxAbs(m)
       /\ scale > 0
       /\ RatLeq(RatScale(RatAdd(lo, RatScale(v, -1)), scale), RatScale(m, k))
       /\ RatLeq(RatScale(RatAdd(v, RatScale(hi, -1)), scale), RatScale(m, k))

(* C30 as it holds: the anchor and every carried-forward value are input   *)
(* sample values, and every averaged value lies between the minimum and    *)
(* the maximum of the sample values up to the rounding of the arithmetic.  *)
C30_WithinRoundedRange ==
  ValuesSettled =>
    /\ result[1].value \in SampleValues
    /\ \A i \in 2..Len(result) :
         IF Averaged(i) THEN WithinRoundedRange(result[i].value)
         ELSE result[i].value \in SampleValues

\* samples that all have the value 53, and a rounded average of them that is not 53
C30_Witness ==
  /\ ValuesSettled
  /\ SampleValues = {Num(53)}
  /\ \E i \in 2..Len(result) :
       /\ Averaged(i)
       /\ result[i].value # Num(53)
       /\ WithinRoundedRange(result[i].value)

=============================================================================
